---- MODULE Spec2Model ----
(***************************************************************************)
(* A model of sqscli's qtocsv command (src/sqscli.go): toCSV drains a      *)
(* queue in batches, renders each message as a CSV row, deletes each       *)
(* received batch, and finally re-adds every drained message to the same   *)
(* queue with sendMessageBatch.                                            *)
(*                                                                         *)
(* Strings are sequences of one-character strings, so that the text the   *)
(* program prints and the ids it builds are computed and not assumed.      *)
(* A Go pointer that may be nil is a sequence of length 0 (nil) or 1.      *)
(* The remote queue, the random source and the process environment are    *)
(* the environment: every outcome they can give is a choice of the model.  *)
(***************************************************************************)
EXTENDS Integers, Sequences, FiniteSets, TLC

\* ------------------------------------------------------------- bounds

\* The largest number of messages on the queue when the run starts.
MaxMsgs == 11

\* The longest queue on which the rare cases of the drain loop are explored: a
\* message with ordered attributes missing, a failing delete and the
\* visibility timeout that makes its messages visible again.
SmallQueue == 3

\* How many delete calls of one run fail, as a call or for one entry.
MaxDeleteFail == 1

\* ---------------------------------------------------- program constants

\* toCSV: svc.receiveMessages(qURL, 10, fifo)
ReceiveBatch == 10

\* toCSV: svc.sendMessageBatch(qURL, readdMessages, 10, fifo)
SendBatch == 10

\* newUUID: uuid := make([]byte, 16)
UUIDLen == 16

\* getBatchRequestEntryAttributes: req.DelaySeconds = aws.Int64(1)
DelaySeconds == 1

\* ------------------------------------------------------------ strings

Min(a, b) == IF a < b THEN a ELSE b

Digit == <<"0", "1", "2", "3", "4", "5", "6", "7", "8", "9">>

\* The decimal text of a number below 100, two characters.
Dec(n) == <<Digit[(n \div 10) + 1], Digit[(n % 10) + 1]>>

\* unicode.IsSpace on the characters the bodies are made of.
IsSpace(c) == c \in {" ", "\t", "\n"}

RECURSIVE FieldsFrom(_, _)
\* strings.Fields: cur is the field being read, s the text still to read.
FieldsFrom(cur, s) ==
    IF s = <<>>
    THEN IF cur = <<>> THEN <<>> ELSE <<cur>>
    ELSE IF IsSpace(Head(s))
         THEN IF cur = <<>>
              THEN FieldsFrom(<<>>, Tail(s))
              ELSE <<cur>> \o FieldsFrom(<<>>, Tail(s))
         ELSE FieldsFrom(Append(cur, Head(s)), Tail(s))

\* strings.Fields(s): the maximal runs of non-space characters of s.
Fields(s) == FieldsFrom(<<>>, s)

RECURSIVE Join(_, _)
\* strings.Join(fs, sep)
Join(fs, sep) ==
    IF fs = <<>> THEN <<>>
    ELSE IF Len(fs) = 1 THEN Head(fs)
    ELSE Head(fs) \o sep \o Join(Tail(fs), sep)

RECURSIVE EscapeQuotes(_)
\* strings.Replace(s, "\"", "\\\"", -1): a backslash before every quote.
EscapeQuotes(s) ==
    IF s = <<>> THEN <<>>
    ELSE IF Head(s) = "\""
         THEN <<"\\", "\"">> \o EscapeQuotes(Tail(s))
         ELSE <<Head(s)>> \o EscapeQuotes(Tail(s))

\* ------------------------------------------------------------ messages

\* The system attributes receiveMessages asks for: SentTimestamp alone on a
\* standard queue, all of them on a FIFO queue.
StandardAttrs == {"SentTimestamp"}

FifoAttrs == {"SentTimestamp", "MessageGroupId", "MessageDeduplicationId",
              "SequenceNumber", "SenderId", "ApproximateFirstReceiveTimestamp",
              "ApproximateReceiveCount"}

\* The attributes a FIFO message has only when its producer set them.
OrderedAttrs == {"MessageGroupId", "MessageDeduplicationId", "SequenceNumber"}

\* The bodies of the messages: runs of spaces, a tab, quotes, edges.
BodyPool == << <<"a", " ", " ", "b">>,
               <<"\"", "x", "\"">>,
               <<" ", "h", "\t", "i">> >>

\* The body of the message with number n: a pool body and the number, so
\* that no two messages have the same body.
BodyOf(n) == BodyPool[(n % 3) + 1] \o Dec(n)

\* The value the broker gives attribute a of message n at its rc-th receive.
AttrValue(a, n, rc) ==
    CASE a = "SentTimestamp" -> <<"t">> \o Dec(n)
      [] a = "MessageGroupId" -> <<"g">> \o Dec(n % 2)
      [] a = "MessageDeduplicationId" -> <<"d">> \o Dec(n)
      [] a = "SequenceNumber" -> <<"s">> \o Dec(n)
      [] a = "SenderId" -> <<"p">>
      [] a = "ApproximateFirstReceiveTimestamp" -> <<"f">> \o Dec(n)
      [] a = "ApproximateReceiveCount" -> Dec(rc)

\* A message on the queue: its number, the attributes it has, how often it
\* was received, and whether it is visible, in flight or deleted.
QueueMessage(n, has) == [n |-> n, has |-> has, rcv |-> 0, status |-> "visible"]

\* The queues a run may find: ordered or not, zero to MaxMsgs messages, on an
\* ordered queue of at most SmallQueue messages maybe one message whose
\* producer left out its group id, or all of the ordered attributes.
InitialQueues(ordered) ==
    LET good == IF ordered THEN FifoAttrs ELSE StandardAttrs
        wellFormed(len) == [k \in 1..len |-> QueueMessage(k, good)]
    IN  { wellFormed(len) : len \in 0..MaxMsgs }
        \cup
        IF ordered
        THEN { [wellFormed(len) EXCEPT ![bad].has = good \ miss] :
                 <<len, bad, miss>> \in
                   { <<l, b, m>> \in (1..SmallQueue) \X (1..SmallQueue) \X
                                      { {"MessageGroupId"}, OrderedAttrs } :
                       b <= l } }
        ELSE {}

\* The sqs.Message a receive returns for queue message q: the attributes are
\* those the request named (want) that the message has; the receipt handle is
\* new at every receive.
ReceivedMessage(q, want) ==
    [MessageId |-> <<"m">> \o Dec(q.n),
     ReceiptHandle |-> <<"r">> \o Dec(q.n) \o Dec(q.rcv + 1),
     Body |-> BodyOf(q.n),
     Attributes |-> [a \in (q.has \cap want) |-> AttrValue(a, q.n, q.rcv + 1)]]

\* m.Attributes[a] is nil: *m.Attributes[a] is a nil pointer dereference.
IsNil(m, a) == a \notin DOMAIN m.Attributes

\* ------------------------------------------------------------ CSV output

\* insertCSVHead: the header line printed for the mode.
CSVHead(isFifo) ==
    IF isFifo
    THEN <<"Body,Message Group ID,Message Deduplication ID,Sequence Number,Sent">>
    ELSE <<"Body,Sent">>

\* formatCSV: the attributes whose pointers the row dereferences.
CSVDerefs(isFifo) ==
    IF isFifo
    THEN {"MessageGroupId", "MessageDeduplicationId", "SequenceNumber",
          "SentTimestamp"}
    ELSE {"SentTimestamp"}

\* formatCSV panics on m: one of the attributes it dereferences is nil.
CSVPanics(m, isFifo) == \E a \in CSVDerefs(isFifo) : IsNil(m, a)

\* formatCSV: the body with its runs of white space made one space and its
\* quotes escaped.
CSVBody(m) == EscapeQuotes(Join(Fields(m.Body), <<" ">>))

\* formatCSV: the row printed for m (without the newline).
CSVRow(m, isFifo) ==
    IF isFifo
    THEN CSVBody(m) \o <<",">> \o m.Attributes["MessageGroupId"] \o <<",">>
         \o m.Attributes["MessageDeduplicationId"] \o <<",">>
         \o m.Attributes["SequenceNumber"] \o <<",">>
         \o m.Attributes["SentTimestamp"]
    ELSE <<"\"">> \o CSVBody(m) \o <<"\"", ",", "\"">>
         \o m.Attributes["SentTimestamp"] \o <<"\"">>

RECURSIVE CSVRows(_, _)
\* The rows the loop of toCSV prints for ms: it stops at the first message
\* formatCSV panics on.
CSVRows(ms, isFifo) ==
    IF ms = <<>> \/ CSVPanics(Head(ms), isFifo) THEN <<>>
    ELSE <<CSVRow(Head(ms), isFifo)>> \o CSVRows(Tail(ms), isFifo)

\* How many messages of ms the loop of toCSV appends to readdMessages: all
\* of them, or those up to the first one formatCSV panics on, which is
\* appended before formatCSV is called.
Staged(ms, isFifo) ==
    IF \E k \in 1..Len(ms) : CSVPanics(ms[k], isFifo)
    THEN CHOOSE k \in 1..Len(ms) :
           /\ CSVPanics(ms[k], isFifo)
           /\ \A h \in 1..(k - 1) : ~CSVPanics(ms[h], isFifo)
    ELSE Len(ms)

\* ------------------------------------------------------------------ ids

\* An error value is a sequence: empty for nil, else the error's name.
NoErr == <<>>

\* make([]byte, 16): sixteen zero bytes. The bytes of the model are numbered
\* from 1: uuid[6] of the code is at 7 and uuid[8] at 9.
ZeroBytes == [p \in 1..UUIDLen |-> 0]

\* What a read that fails returns.
FailedRead == [n |-> 0, err |-> <<"rand: read failed">>, bytes |-> ZeroBytes]

\* io.ReadFull(rand.Reader, uuid): the k-th read of the run fills the 16
\* bytes (the first byte stands for the number of the read: two reads of a
\* sound source do not give the same bytes), or fails having read nothing.
RandRead(k, sound) ==
    IF sound
    THEN [n |-> UUIDLen, err |-> NoErr,
          bytes |-> [p \in 1..UUIDLen |-> (37 * k + 11 * p) % 256]]
    ELSE FailedRead

\* Bit k of the byte b, bit 0 being the lowest.
Bit(b, k) == (b \div (2 ^ k)) % 2

RECURSIVE FromBits(_, _)
\* The byte whose bits from k up are those of f.
FromBits(f, k) == IF k > 7 THEN 0 ELSE f[k] * (2 ^ k) + FromBits(f, k + 1)

\* Go's b &^ m on a byte: the bits of b that are not in m.
AndNot(b, m) ==
    FromBits([k \in 0..7 |-> IF Bit(m, k) = 1 THEN 0 ELSE Bit(b, k)], 0)

\* Go's b | m on a byte.
Or(b, m) ==
    FromBits([k \in 0..7 |-> IF Bit(b, k) = 1 \/ Bit(m, k) = 1 THEN 1 ELSE 0], 0)

\* A slip in newUUID: the two bytes are taken one for the other.
SetBitsSwapped(uuid) ==
    [uuid EXCEPT ![7] = Or(AndNot(@, 192), 128),
                 ![9] = Or(AndNot(@, 240), 64)]

\* newUUID: uuid[8] = uuid[8]&^0xc0 | 0x80 (the variant bits) and
\* uuid[6] = uuid[6]&^0xf0 | 0x40 (version 4).
SetBits(uuid) ==
    [uuid EXCEPT ![9] = Or(AndNot(@, 192), 128),
                 ![7] = Or(AndNot(@, 240), 64)]

HexDigit == <<"0", "1", "2", "3", "4", "5", "6", "7", "8", "9",
              "a", "b", "c", "d", "e", "f">>

RECURSIVE HexText(_)
\* fmt's %x of a slice of bytes: two digits for each byte.
HexText(bytes) ==
    IF bytes = <<>> THEN <<>>
    ELSE <<HexDigit[(Head(bytes) \div 16) + 1], HexDigit[(Head(bytes) % 16) + 1]>>
         \o HexText(Tail(bytes))

\* newUUID: fmt.Sprintf("%x%x%x%x%x", uuid[0:4], uuid[4:6], uuid[6:8],
\* uuid[8:10], uuid[10:]).
Sprintx(uuid) ==
    HexText(SubSeq(uuid, 1, 4)) \o HexText(SubSeq(uuid, 5, 6))
    \o HexText(SubSeq(uuid, 7, 8)) \o HexText(SubSeq(uuid, 9, 10))
    \o HexText(SubSeq(uuid, 11, Len(uuid)))

\* newUUID: the empty string and the error when the read fails, else the text
\* of the bytes read with the variant and the version set.
newUUID(r) ==
    IF r.n # UUIDLen \/ r.err # NoErr
    THEN [uuid |-> <<>>, err |-> r.err]
    ELSE [uuid |-> Sprintx(SetBits(r.bytes)), err |-> NoErr]

\* ------------------------------------------------------ outbound entries

StringAttr(v) == [DataType |-> "String", StringValue |-> v]

\* The attributes sendMessageBatch and getBatchRequestEntryAttributes
\* dereference while building the entry of a message.
EntryDerefs(isFifo) ==
    IF isFifo
    THEN {"SentTimestamp", "MessageGroupId", "SequenceNumber", "SenderId",
          "ApproximateFirstReceiveTimestamp", "ApproximateReceiveCount"}
    ELSE {"SentTimestamp"}

EntryPanics(m, isFifo) == \E a \in EntryDerefs(isFifo) : IsNil(m, a)

\* A slip in getBatchRequestEntryAttributes: the delay is set outside the
\* test of the mode, on every entry.
EntryAttributesAlwaysDelayed(req, m, isFifo, r) ==
    IF isFifo
    THEN [req EXCEPT
            !.MessageDeduplicationId = <<newUUID(r).uuid>>,
            !.MessageGroupId = <<m.Attributes["MessageGroupId"]>>,
            !.MessageAttributes =
               [a \in {"SentTimestamp", "SequenceNumber", "MessageGroupId",
                       "SenderId", "ApproximateFirstReceiveTimestamp",
                       "ApproximateReceiveCount"} |->
                  StringAttr(m.Attributes[a])],
            !.DelaySeconds = <<DelaySeconds>>]
    ELSE [req EXCEPT !.DelaySeconds = <<DelaySeconds>>]

\* getBatchRequestEntryAttributes: on a FIFO queue the entry gets a new
\* deduplication id (the error of newUUID is dropped), the group id of the
\* message and five attributes; on a standard queue a delay of one second.
getBatchRequestEntryAttributes(req, m, isFifo, r) ==
    IF isFifo
    THEN [req EXCEPT
            !.MessageDeduplicationId = <<newUUID(r).uuid>>,
            !.MessageGroupId = <<m.Attributes["MessageGroupId"]>>,
            !.MessageAttributes =
               [a \in {"SentTimestamp", "SequenceNumber", "MessageGroupId",
                       "SenderId", "ApproximateFirstReceiveTimestamp",
                       "ApproximateReceiveCount"} |->
                  StringAttr(m.Attributes[a])]]
    ELSE [req EXCEPT !.DelaySeconds = <<DelaySeconds>>]

\* A slip in sendMessageBatch: the entry takes the body as formatCSV writes
\* it.
BatchEntryOfRow(m, isFifo, r) ==
    getBatchRequestEntryAttributes(
        [Id |-> m.MessageId,
         MessageBody |-> CSVBody(m),
         MessageAttributes |->
            [a \in {"SentTimestamp"} |-> StringAttr(m.Attributes[a])],
         MessageDeduplicationId |-> <<>>,
         MessageGroupId |-> <<>>,
         DelaySeconds |-> <<>>],
        m, isFifo, r)

\* sendMessageBatch, the body of the inner loop: the entry built for m.
BatchEntry(m, isFifo, r) ==
    getBatchRequestEntryAttributes(
        [Id |-> m.MessageId,
         MessageBody |-> m.Body,
         MessageAttributes |->
            [a \in {"SentTimestamp"} |-> StringAttr(m.Attributes[a])],
         MessageDeduplicationId |-> <<>>,
         MessageGroupId |-> <<>>,
         DelaySeconds |-> <<>>],
        m, isFifo, r)

\* A slip in the end of a chunk: a full chunk ends one entry early, while i
\* still moves on by batch.
ChunkEndShort(from, len, batch) ==
    IF from + batch > len THEN len ELSE from + batch - 1

\* sendMessageBatch: the end of the chunk that starts at index from (from 0,
\* as in the code).
ChunkEnd(from, len, batch) == IF from + batch > len THEN len ELSE from + batch

\* ---------------------------------------------------------------- state

VARIABLES
    pc,            \* where toCSV is: "verify", "connect", "geturl", "isfifo",
                   \* "head", "receive", "delete", "send", or "exited"
    exitCode,      \* the exit code of the process, -1 while it runs
    exitBy,        \* how it ended: "return", "usage", "fatal" or "panic"
    log,           \* what log.Fatal and the runtime wrote to standard error
    out,           \* the lines written to standard output
    queueAttr,     \* the queue's FifoQueue attribute: nil or a value
    queue,         \* the messages of the queue the run started with
    delivered,     \* the entries the queue accepted from the send calls
    fifo,          \* toCSV: fifo
    result,        \* toCSV: result.Messages of the last receive
    readdMessages, \* toCSV: readdMessages
    received,      \* every message a receive returned, in order
    lastDelete,    \* the delete call of this iteration and its outcome
    i,             \* sendMessageBatch: i
    errors,        \* sendMessageBatch: errors
    sendCalls,     \* the send calls of sendMessageBatch and their outcomes
    reads,         \* how many reads of the random source succeeded
    randSound,     \* whether the random source still works
    nDeleteFail,   \* delete calls that failed so far
    keyID,         \* newService: os.Getenv("AWS_ACCESS_KEY_ID")
    secretKey,     \* newService: os.Getenv("AWS_SECRET_ACCESS_KEY")
    issued,        \* the operations of the queue service called so far
    lookups,       \* how many times the attributes of the queue were fetched
    deletesOwed,   \* batches received and not yet given to deleteMessageBatch
    randIn,        \* newUUID alone: the bytes the random source gives
    uuidOut        \* newUUID alone: nil, or what newUUID returned

vars == <<pc, exitCode, exitBy, log, out, queueAttr, queue, delivered, fifo,
          result, readdMessages, received, lastDelete, i, errors, sendCalls,
          reads, randSound, nDeleteFail, keyID, secretKey, issued, lookups,
          deletesOwed, randIn, uuidOut>>

\* The variables of the remote queue and of the bookkeeping of the bounds.
envVars == <<queueAttr, queue, delivered, reads, randSound, nDeleteFail>>

\* The variables of the drain loop and of sendMessageBatch.
runVars == <<fifo, result, readdMessages, received, lastDelete, i, errors,
             sendCalls>>

\* What no step of toCSV changes: the credentials of the environment, and the
\* variables of newUUID taken alone.
fixedVars == <<keyID, secretKey, randIn, uuidOut>>

\* The bookkeeping of the calls made.
callVars == <<issued, lookups, deletesOwed>>

Running == exitCode = -1

\* The values the FifoQueue attribute of a queue is given in the model: nil
\* (a standard queue), "true" (a FIFO queue), and a text that
\* strconv.ParseBool refuses.
FifoQueueValues == {<<>>, <<"true">>, <<"yes">>}

NoCall == [entries |-> <<>>, err |-> NoErr, failed |-> {}, made |-> FALSE]

Init ==
    /\ pc = "verify"
    /\ exitCode = -1
    /\ exitBy = "none"
    /\ log = <<>>
    /\ out = <<>>
    /\ queueAttr \in FifoQueueValues
    /\ queue \in InitialQueues(queueAttr = <<"true">>)
    /\ delivered = <<>>
    /\ fifo = FALSE
    /\ result = <<>>
    /\ readdMessages = <<>>
    /\ received = <<>>
    /\ lastDelete = NoCall
    /\ i = 0
    /\ errors = <<>>
    /\ sendCalls = <<>>
    /\ reads = 0
    /\ randSound = TRUE
    /\ nDeleteFail = 0
    /\ keyID \in {<<>>, <<"k">>}
    /\ secretKey \in {<<>>, <<"s">>}
    /\ issued = {}
    /\ lookups = 0
    /\ deletesOwed = 0
    /\ randIn = ZeroBytes
    /\ uuidOut = <<>>

\* ------------------------------------------------------- ways to stop

\* os.Exit(code), log.Fatal (exit code 1) and a panic (exit code 2): the
\* process stops with what it printed so far.
Exit(code, by, logged) ==
    /\ pc' = "exited"
    /\ exitCode' = code
    /\ exitBy' = by
    /\ log' = log \o logged

\* toCSVUsage: three lines and os.Exit(0).
UsageLines == << <<"usage: sqscli qtocsv [options]">>, <<"options:">>,
                 <<"  -queue required   Queue name">> >>

\* The error value of the c-th call of operation op, when it fails: no two
\* failing calls return the same error.
CallError(op, c) == <<op>> \o <<" failed, request ">> \o Dec(c)

\* --------------------------------------------------------- toCSV: set up

\* toCSV, "Verify": without a queue name, a line, the usage and exit code 0.
Verify ==
    /\ pc = "verify"
    /\ \E name \in {<<>>, <<"q">>} :
         IF Len(name) = 0
         THEN /\ out' = out \o << <<"Required queue name is missing.">> >>
                            \o UsageLines
              /\ Exit(0, "usage", <<>>)
         ELSE /\ pc' = "connect"
              /\ UNCHANGED <<out, exitCode, exitBy, log>>
    /\ UNCHANGED <<envVars, runVars, fixedVars, callVars>>

\* A slip in newService: it stops only when both variables are empty.
NewServiceNeedsOneKey ==
    /\ pc = "connect"
    /\ \E err \in {NoErr, <<"session">>} :
         IF keyID = <<>> /\ secretKey = <<>>
         THEN Exit(1, "fatal", << [msg |-> "Missing connection credentials",
                                   errs |-> <<>>] >>)
         ELSE IF err # NoErr
         THEN Exit(1, "fatal", << [msg |-> "Error connecting to AWS ",
                                   errs |-> <<err>>] >>)
         ELSE /\ pc' = "geturl"
              /\ UNCHANGED <<exitCode, exitBy, log>>
    /\ UNCHANGED <<out, envVars, runVars, fixedVars, callVars>>

\* newService: log.Fatal when a credential variable is empty or the session
\* cannot be made.
NewService ==
    /\ pc = "connect"
    /\ \E err \in {NoErr, <<"session">>} :
         IF keyID = <<>> \/ secretKey = <<>>
         THEN Exit(1, "fatal", << [msg |-> "Missing connection credentials",
                                   errs |-> <<>>] >>)
         ELSE IF err # NoErr
         THEN Exit(1, "fatal", << [msg |-> "Error connecting to AWS ",
                                   errs |-> <<err>>] >>)
         ELSE /\ pc' = "geturl"
              /\ UNCHANGED <<exitCode, exitBy, log>>
    /\ UNCHANGED <<out, envVars, runVars, fixedVars, callVars>>

\* getQueueURL: log.Fatalf when the lookup fails.
GetQueueURL ==
    /\ pc = "geturl"
    /\ \E err \in {NoErr, CallError("GetQueueUrl", 1)} :
         IF err # NoErr
         THEN Exit(1, "fatal", << [msg |-> "Error finding queue",
                                   errs |-> <<err>>] >>)
         ELSE /\ pc' = "isfifo"
              /\ UNCHANGED <<exitCode, exitBy, log>>
    /\ issued' = issued \cup {"GetQueueUrl"}
    /\ UNCHANGED <<out, envVars, runVars, fixedVars, lookups, deletesOwed>>

\* strconv.ParseBool on the values of the model.
ParseBool(str) ==
    IF str \in {"1", "t", "T", "TRUE", "true", "True"}
    THEN [b |-> TRUE, err |-> NoErr]
    ELSE IF str \in {"0", "f", "F", "FALSE", "false", "False"}
    THEN [b |-> FALSE, err |-> NoErr]
    ELSE [b |-> FALSE, err |-> <<"strconv.ParseBool: invalid syntax">>]

\* isFIFO (with getQueueAttributes): log.Fatalf when the lookup fails, false
\* without the attribute, log.Fatal when it is no boolean, else its value.
IsFIFO ==
    /\ pc = "isfifo"
    /\ \E err \in {NoErr, CallError("GetQueueAttributes", 1)} :
         IF err # NoErr
         THEN /\ Exit(1, "fatal", << [msg |-> "Error fetching queue attributes",
                                      errs |-> <<err>>] >>)
              /\ UNCHANGED fifo
         ELSE IF queueAttr = <<>>
         THEN /\ fifo' = FALSE
              /\ pc' = "head"
              /\ UNCHANGED <<exitCode, exitBy, log>>
         ELSE IF ParseBool(queueAttr[1]).err # NoErr
         THEN /\ Exit(1, "fatal", << [msg |-> "Error determining queue type",
                                      errs |-> <<ParseBool(queueAttr[1]).err>>] >>)
              /\ UNCHANGED fifo
         ELSE /\ fifo' = ParseBool(queueAttr[1]).b
              /\ pc' = "head"
              /\ UNCHANGED <<exitCode, exitBy, log>>
    /\ issued' = issued \cup {"GetQueueAttributes"}
    /\ lookups' = lookups + 1
    /\ UNCHANGED <<out, envVars, result, readdMessages, received, lastDelete,
                   i, errors, sendCalls, fixedVars, deletesOwed>>

\* A slip in toCSV: the header is not that of the value looked up.
InsertCSVHeadStandard ==
    /\ pc = "head"
    /\ out' = Append(out, CSVHead(FALSE))
    /\ pc' = "receive"
    /\ UNCHANGED <<exitCode, exitBy, log, envVars, runVars, fixedVars,
                   callVars>>

\* insertCSVHead(fifo)
InsertCSVHead ==
    /\ pc = "head"
    /\ out' = Append(out, CSVHead(fifo))
    /\ pc' = "receive"
    /\ UNCHANGED <<exitCode, exitBy, log, envVars, runVars, fixedVars,
                   callVars>>

\* ------------------------------------------------------ the remote queue

\* The positions of the visible messages of the queue.
Visible(q) == { x \in DOMAIN q : q[x].status = "visible" }

\* The k first positions of S, in order.
FirstOf(S, k) ==
    [p \in 1..k |-> CHOOSE x \in S : Cardinality({ y \in S : y < x }) = p - 1]

\* The id and the receipt handle the broker knows queue message q by.
IdOf(q) == <<"m">> \o Dec(q.n)

HandleOf(q) == <<"r">> \o Dec(q.n) \o Dec(q.rcv)

\* ReceiveMessage: the queue once the messages at positions at are in flight.
Taken(q, at) ==
    [x \in DOMAIN q |->
       IF \E p \in DOMAIN at : at[p] = x
       THEN [q[x] EXCEPT !.status = "inflight", !.rcv = @ + 1]
       ELSE q[x]]

\* DeleteMessageBatch: the queue once the entries are deleted, but for those
\* at the positions in failed. An entry deletes the message in flight that
\* has its id and its receipt handle.
Deleted(q, entries, failed) ==
    [x \in DOMAIN q |->
       IF /\ q[x].status = "inflight"
          /\ \E p \in DOMAIN entries :
               /\ p \notin failed
               /\ entries[p].Id = IdOf(q[x])
               /\ entries[p].ReceiptHandle = HandleOf(q[x])
       THEN [q[x] EXCEPT !.status = "deleted"]
       ELSE q[x]]

\* The outcomes of a batch call with n entries that does not fail as a call:
\* every entry succeeds, or one of them, the first or the last, is reported as
\* failed in the output.
ItemOutcomes(n) == { {} } \cup { {p} : p \in {1, n} \cap (1..n) }

\* --------------------------------------------------- toCSV: the drain loop

\* receiveMessages: the attributes asked for.
Wanted(isFifo) == IF isFifo THEN FifoAttrs ELSE StandardAttrs

\* receiveMessages fails: log.Fatal.
ReceiveFails ==
    /\ pc = "receive"
    /\ Exit(1, "fatal", << [msg |-> "Error fetching message ",
                           errs |-> <<CallError("ReceiveMessage", 1)>>] >>)
    /\ issued' = issued \cup {"ReceiveMessage"}
    /\ UNCHANGED <<out, envVars, runVars, fixedVars, lookups, deletesOwed>>

\* receiveMessages returns no message: the loop ends, and sendMessageBatch
\* starts with no error and i = 0.
ReceiveNone ==
    /\ pc = "receive"
    /\ Visible(queue) = {}
    /\ result' = <<>>
    /\ lastDelete' = NoCall
    /\ i' = 0
    /\ errors' = <<>>
    /\ pc' = "send"
    /\ issued' = issued \cup {"ReceiveMessage"}
    /\ UNCHANGED <<exitCode, exitBy, log, out, envVars, fifo, readdMessages,
                   received, sendCalls, fixedVars, lookups, deletesOwed>>

\* A slip in the loop of toCSV: the batch is put before the staged messages.
ProcessPrepends(ms) ==
    /\ readdMessages' = SubSeq(ms, 1, Staged(ms, fifo)) \o readdMessages
    /\ out' = out \o CSVRows(ms, fifo)
    /\ IF \E k \in 1..Len(ms) : CSVPanics(ms[k], fifo)
       THEN Exit(2, "panic", << [msg |-> "panic: nil pointer dereference",
                                 errs |-> <<>>] >>)
       ELSE /\ pc' = "delete"
            /\ UNCHANGED <<exitCode, exitBy, log>>

\* A slip in the loop of toCSV: after a batch is processed the loop is left
\* for sendMessageBatch, without the delete and without an empty receive.
ProcessThenSend(ms) ==
    /\ readdMessages' = readdMessages \o SubSeq(ms, 1, Staged(ms, fifo))
    /\ out' = out \o CSVRows(ms, fifo)
    /\ IF \E k \in 1..Len(ms) : CSVPanics(ms[k], fifo)
       THEN Exit(2, "panic", << [msg |-> "panic: nil pointer dereference",
                                 errs |-> <<>>] >>)
       ELSE /\ pc' = "send"
            /\ UNCHANGED <<exitCode, exitBy, log>>

\* A slip in the loop of toCSV: only the first message of a batch is staged.
ProcessStagesOne(ms) ==
    /\ readdMessages' = readdMessages \o SubSeq(ms, 1, Min(1, Staged(ms, fifo)))
    /\ out' = out \o CSVRows(ms, fifo)
    /\ IF \E k \in 1..Len(ms) : CSVPanics(ms[k], fifo)
       THEN Exit(2, "panic", << [msg |-> "panic: nil pointer dereference",
                                 errs |-> <<>>] >>)
       ELSE /\ pc' = "delete"
            /\ UNCHANGED <<exitCode, exitBy, log>>

\* toCSV, "Process": each message is appended to readdMessages and then
\* printed; formatCSV panics on a nil attribute.
Process(ms) ==
    /\ readdMessages' = readdMessages \o SubSeq(ms, 1, Staged(ms, fifo))
    /\ out' = out \o CSVRows(ms, fifo)
    /\ IF \E k \in 1..Len(ms) : CSVPanics(ms[k], fifo)
       THEN Exit(2, "panic", << [msg |-> "panic: nil pointer dereference",
                                 errs |-> <<>>] >>)
       ELSE /\ pc' = "delete"
            /\ UNCHANGED <<exitCode, exitBy, log>>

\* receiveMessages returns one to ten of the visible messages, which are in
\* flight from then on, and the loop processes them.
ReceiveSome ==
    /\ pc = "receive"
    /\ \E k \in 1..Min(ReceiveBatch, Cardinality(Visible(queue))) :
         LET at == FirstOf(Visible(queue), k)
             ms == [p \in 1..k |-> ReceivedMessage(queue[at[p]], Wanted(fifo))]
         IN  /\ queue' = Taken(queue, at)
             /\ result' = ms
             /\ received' = received \o ms
             /\ Process(ms)
    /\ lastDelete' = NoCall
    /\ issued' = issued \cup {"ReceiveMessage"}
    /\ deletesOwed' = deletesOwed + 1
    /\ UNCHANGED <<queueAttr, delivered, reads, randSound, nDeleteFail, fifo, i,
                   errors, sendCalls, fixedVars, lookups>>

\* A slip in deleteMessageBatch: every entry takes the receipt handle of the
\* first message.
DeleteEntriesFirstHandle(ms) ==
    [p \in DOMAIN ms |-> [Id |-> ms[p].MessageId,
                          ReceiptHandle |-> ms[1].ReceiptHandle]]

\* deleteMessageBatch: the entries of the call.
DeleteEntries(ms) ==
    [p \in DOMAIN ms |-> [Id |-> ms[p].MessageId,
                          ReceiptHandle |-> ms[p].ReceiptHandle]]

\* deleteMessageBatch: what it prints for the error of the call.
DeleteLines(err) ==
    IF err # NoErr THEN << <<"Delete Error">> \o err >> ELSE <<>>

\* deleteMessageBatch: the call deletes every message.
DeleteBatchOK ==
    /\ pc = "delete"
    /\ queue' = Deleted(queue, DeleteEntries(result), {})
    /\ lastDelete' = [entries |-> DeleteEntries(result), err |-> NoErr,
                      failed |-> {}, made |-> TRUE]
    /\ out' = out \o DeleteLines(NoErr)
    /\ pc' = "receive"
    /\ issued' = issued \cup {"DeleteMessageBatch"}
    /\ deletesOwed' = deletesOwed - 1
    /\ UNCHANGED <<exitCode, exitBy, log, queueAttr, delivered, reads,
                   randSound, nDeleteFail, fifo, result, readdMessages, received,
                   i, errors, sendCalls, fixedVars, lookups>>

\* deleteMessageBatch: the call fails and deletes nothing; the error is
\* printed and the loop goes on.
DeleteBatchFails ==
    /\ pc = "delete"
    /\ Len(queue) <= SmallQueue
    /\ nDeleteFail < MaxDeleteFail
    /\ nDeleteFail' = nDeleteFail + 1
    /\ LET err == CallError("DeleteMessageBatch", 1)
       IN  /\ lastDelete' = [entries |-> DeleteEntries(result), err |-> err,
                             failed |-> DOMAIN result, made |-> TRUE]
           /\ out' = out \o DeleteLines(err)
    /\ pc' = "receive"
    /\ issued' = issued \cup {"DeleteMessageBatch"}
    /\ deletesOwed' = deletesOwed - 1
    /\ UNCHANGED <<exitCode, exitBy, log, queueAttr, queue, delivered, reads,
                   randSound, fifo, result, readdMessages, received, i, errors,
                   sendCalls, fixedVars, lookups>>

\* deleteMessageBatch: the call succeeds and its output, which the code drops,
\* reports one entry as failed; the others are deleted.
DeleteBatchItemFails ==
    /\ pc = "delete"
    /\ Len(queue) <= SmallQueue
    /\ nDeleteFail < MaxDeleteFail
    /\ nDeleteFail' = nDeleteFail + 1
    /\ \E failed \in ItemOutcomes(Len(result)) \ { {} } :
         /\ queue' = Deleted(queue, DeleteEntries(result), failed)
         /\ lastDelete' = [entries |-> DeleteEntries(result), err |-> NoErr,
                           failed |-> failed, made |-> TRUE]
    /\ out' = out \o DeleteLines(NoErr)
    /\ pc' = "receive"
    /\ issued' = issued \cup {"DeleteMessageBatch"}
    /\ deletesOwed' = deletesOwed - 1
    /\ UNCHANGED <<exitCode, exitBy, log, queueAttr, delivered, reads,
                   randSound, fifo, result, readdMessages, received, i, errors,
                   sendCalls, fixedVars, lookups>>

\* The visibility timeout (ten seconds) of the messages still in flight, those
\* of a delete that failed, runs out between two receives: they are visible
\* again.
VisibilityTimeout ==
    /\ pc = "receive"
    /\ \E x \in DOMAIN queue : queue[x].status = "inflight"
    /\ queue' = [x \in DOMAIN queue |->
                   IF queue[x].status = "inflight"
                   THEN [queue[x] EXCEPT !.status = "visible"]
                   ELSE queue[x]]
    /\ UNCHANGED <<pc, exitCode, exitBy, log, out, queueAttr, delivered, reads,
                   randSound, nDeleteFail, runVars, fixedVars, callVars>>

\* --------------------------------------------------- sendMessageBatch

\* sendMessageBatch: errors once a call returned err.
Collected(errs, err) == IF err # NoErr THEN Append(errs, err) ELSE errs

\* A slip in the loop: the first failed call ends it (i jumps past any
\* staged sequence of the model).
NextChunkStopsOnError(from, batch, err) ==
    IF err # NoErr THEN from + 100 * batch ELSE from + batch

\* sendMessageBatch: i after the chunk that starts at from, whatever the call
\* returned.
NextChunk(from, batch, err) == from + batch

\* The reads of a chunk of n entries at which a sound random source may stop
\* working: the first, the second, or none (n + 1).
FirstFailures(n) == {1, 2, n + 1} \cap (1..(n + 1))

\* The entries of the chunk ms. On a FIFO queue each takes one read of the
\* random source: the reads before firstFail succeed when the source is
\* sound, and from the read that fails on the source stays unsound.
ChunkEntries(ms, isFifo, sound, firstFail, done) ==
    [p \in DOMAIN ms |->
       BatchEntry(ms[p], isFifo, RandRead(done + p, sound /\ p < firstFail))]

\* The entries of a call that the queue accepted, in order.
Accepted(entries, failed) ==
    LET Keep(p) == p \notin failed
        RECURSIVE From(_)
        From(p) == IF p > Len(entries) THEN <<>>
                   ELSE (IF Keep(p) THEN <<entries[p]>> ELSE <<>>) \o From(p + 1)
    IN  From(1)

\* SendMessageBatch takes a request only when no two of its entries have the
\* same Id; it refuses the whole request otherwise (BatchEntryIdsNotDistinct).
DistinctIds(entries) ==
    \A p, q \in DOMAIN entries : p # q => entries[p].Id # entries[q].Id

\* One round of the loop of sendMessageBatch: the entries of the chunk are
\* built and sent in one call. The call fails, as it must when two entries
\* have the same Id, or it succeeds and its output, which the code drops, may
\* report an entry as failed.
SendChunk ==
    /\ pc = "send"
    /\ i < Len(readdMessages)
    /\ LET j == ChunkEnd(i, Len(readdMessages), SendBatch)
           ms == SubSeq(readdMessages, i + 1, j)
           n == Len(ms)
       IN  IF \E p \in 1..n : EntryPanics(ms[p], fifo)
           THEN /\ Exit(2, "panic", << [msg |-> "panic: nil pointer dereference",
                                        errs |-> <<>>] >>)
                /\ UNCHANGED <<delivered, i, errors, sendCalls, reads,
                               randSound, issued>>
           ELSE \E firstFail \in (IF fifo /\ randSound THEN FirstFailures(n) ELSE {n + 1}),
                   err \in {NoErr, CallError("SendMessageBatch", Len(sendCalls) + 1)},
                   failed \in ItemOutcomes(n) :
                  LET entries == ChunkEntries(ms, fifo, randSound, firstFail, reads)
                  IN  /\ err # NoErr => failed = {}
                      /\ ~DistinctIds(entries) => err # NoErr
                      /\ reads' = IF fifo /\ randSound
                                  THEN reads + (firstFail - 1) ELSE reads
                      /\ randSound' = (randSound /\ (fifo => firstFail = n + 1))
                      /\ delivered' = IF err # NoErr THEN delivered
                                      ELSE delivered \o Accepted(entries, failed)
                      /\ sendCalls' = Append(sendCalls,
                                             [entries |-> entries, err |-> err,
                                              failed |-> failed])
                      /\ errors' = Collected(errors, err)
                      /\ i' = NextChunk(i, SendBatch, err)
                      /\ issued' = issued \cup {"SendMessageBatch"}
                      /\ UNCHANGED <<pc, exitCode, exitBy, log>>
    /\ UNCHANGED <<out, queueAttr, queue, nDeleteFail, fifo, result,
                   readdMessages, received, lastDelete, fixedVars, lookups,
                   deletesOwed>>

\* A slip at the end of toCSV: the errors of sendMessageBatch are dropped.
SendReturnDropsErrors ==
    /\ pc = "send"
    /\ i >= Len(readdMessages)
    /\ Exit(0, "return", <<>>)
    /\ UNCHANGED <<out, envVars, runVars, fixedVars, callVars>>

\* sendMessageBatch returns errors; toCSV ends with log.Fatal when there is
\* one, and returns otherwise (exit code 0).
SendReturn ==
    /\ pc = "send"
    /\ i >= Len(readdMessages)
    /\ IF Len(errors) > 0
       THEN Exit(1, "fatal", << [msg |-> "There were errors re-adding the messages",
                                 errs |-> errors] >>)
       ELSE Exit(0, "return", <<>>)
    /\ UNCHANGED <<out, envVars, runVars, fixedVars, callVars>>

\* -------------------------------------------------------- specification

Next ==
    \/ Verify
    \/ NewService
    \/ GetQueueURL
    \/ IsFIFO
    \/ InsertCSVHead
    \/ ReceiveFails
    \/ ReceiveNone
    \/ ReceiveSome
    \/ DeleteBatchOK
    \/ DeleteBatchFails
    \/ DeleteBatchItemFails
    \/ VisibilityTimeout
    \/ SendChunk
    \/ SendReturn

Spec == Init /\ [][Next]_vars

\* ------------------------------------------- the drain loop taken alone

\* Whether the loop of toCSV goes round again depends on result.Messages
\* alone (it ends at the first empty receive, or in receiveMessages with
\* log.Fatal), and a run that goes round for ever is never twice in the same
\* state: readdMessages, the output and the receive counts grow at every
\* round. LoopSpec is the loop with what grows left out, so that such a run
\* is a cycle of finitely many states: the staged messages, the rows printed
\* and the budget of failing deletes stay as they are, and a message's
\* receive count stays at one. Every step of LoopSpec is a step of the loop
\* of toCSV, seen through pc, the exit, the queue's visible, in flight and
\* deleted messages, result and the last delete call.

\* The loop is entered: the states of Spec after insertCSVHead, on a queue
\* of one to SmallQueue messages.
LoopInit ==
    /\ pc = "receive"
    /\ exitCode = -1
    /\ exitBy = "none"
    /\ log = <<>>
    /\ queueAttr \in {<<>>, <<"true">>}
    /\ queue \in { q \in InitialQueues(queueAttr = <<"true">>) :
                     Len(q) \in 1..SmallQueue }
    /\ fifo = (queueAttr = <<"true">>)
    /\ out = <<CSVHead(fifo)>>
    /\ delivered = <<>>
    /\ result = <<>>
    /\ readdMessages = <<>>
    /\ received = <<>>
    /\ lastDelete = NoCall
    /\ i = 0
    /\ errors = <<>>
    /\ sendCalls = <<>>
    /\ reads = 0
    /\ randSound = TRUE
    /\ nDeleteFail = 0
    /\ keyID = <<"k">>
    /\ secretKey = <<"s">>
    /\ issued = {"GetQueueUrl", "GetQueueAttributes"}
    /\ lookups = 1
    /\ deletesOwed = 0
    /\ randIn = ZeroBytes
    /\ uuidOut = <<>>

\* ReceiveMessage in LoopSpec: the messages at positions at are in flight,
\* received once.
LoopTaken(q, at) ==
    [x \in DOMAIN q |->
       IF \E p \in DOMAIN at : at[p] = x
       THEN [q[x] EXCEPT !.status = "inflight", !.rcv = 1]
       ELSE q[x]]

\* ReceiveSome in LoopSpec: receiveMessages returns one to ten of the
\* visible messages, and the loop goes on to deleteMessageBatch unless
\* formatCSV panics.
LoopReceiveSome ==
    /\ pc = "receive"
    /\ \E k \in 1..Min(ReceiveBatch, Cardinality(Visible(queue))) :
         LET at == FirstOf(Visible(queue), k)
             ms == [p \in 1..k |->
                      ReceivedMessage([queue[at[p]] EXCEPT !.rcv = 0],
                                      Wanted(fifo))]
         IN  /\ queue' = LoopTaken(queue, at)
             /\ result' = ms
             /\ IF \E p \in 1..k : CSVPanics(ms[p], fifo)
                THEN Exit(2, "panic", << [msg |-> "panic: nil pointer dereference",
                                          errs |-> <<>>] >>)
                ELSE /\ pc' = "delete"
                     /\ UNCHANGED <<exitCode, exitBy, log>>
    /\ lastDelete' = NoCall
    /\ issued' = issued \cup {"ReceiveMessage"}
    /\ deletesOwed' = deletesOwed + 1
    /\ UNCHANGED <<out, queueAttr, delivered, reads, randSound, nDeleteFail,
                   fifo, readdMessages, received, i, errors, sendCalls,
                   fixedVars, lookups>>

\* DeleteBatchFails in LoopSpec: any delete call may fail.
LoopDeleteBatchFails ==
    /\ pc = "delete"
    /\ lastDelete' = [entries |-> DeleteEntries(result),
                      err |-> CallError("DeleteMessageBatch", 1),
                      failed |-> DOMAIN result, made |-> TRUE]
    /\ pc' = "receive"
    /\ issued' = issued \cup {"DeleteMessageBatch"}
    /\ deletesOwed' = deletesOwed - 1
    /\ UNCHANGED <<exitCode, exitBy, log, out, envVars, fifo, result,
                   readdMessages, received, i, errors, sendCalls, fixedVars,
                   lookups>>

\* DeleteBatchItemFails in LoopSpec: any delete call may fail for an entry.
LoopDeleteBatchItemFails ==
    /\ pc = "delete"
    /\ \E failed \in ItemOutcomes(Len(result)) \ { {} } :
         /\ queue' = Deleted(queue, DeleteEntries(result), failed)
         /\ lastDelete' = [entries |-> DeleteEntries(result), err |-> NoErr,
                           failed |-> failed, made |-> TRUE]
    /\ pc' = "receive"
    /\ issued' = issued \cup {"DeleteMessageBatch"}
    /\ deletesOwed' = deletesOwed - 1
    /\ UNCHANGED <<exitCode, exitBy, log, out, queueAttr, delivered, reads,
                   randSound, nDeleteFail, fifo, result, readdMessages, received,
                   i, errors, sendCalls, fixedVars, lookups>>

\* receiveMessages returns, one way or another.
LoopReceive == ReceiveFails \/ ReceiveNone \/ LoopReceiveSome

\* deleteMessageBatch returns, one way or another.
LoopDelete == DeleteBatchOK \/ LoopDeleteBatchFails \/ LoopDeleteBatchItemFails

LoopNext ==
    \/ ReceiveFails
    \/ ReceiveNone
    \/ LoopReceiveSome
    \/ DeleteBatchOK
    \/ LoopDeleteBatchFails
    \/ LoopDeleteBatchItemFails
    \/ VisibilityTimeout

\* The program is single-threaded and every call blocks until it returns:
\* a receive that was called returns, and so does a delete. Nothing obliges
\* the queue to fail, to succeed, or to let a visibility timeout run out.
LoopSpec ==
    /\ LoopInit
    /\ [][LoopNext]_vars
    /\ WF_vars(LoopReceive)
    /\ WF_vars(LoopDelete)

\* ------------------------------------------------------ newUUID alone

\* Values of a byte: the least and the greatest, and those on either side of
\* the bits newUUID sets.
ByteSamples == {0, 1, 15, 16, 63, 64, 79, 127, 128, 176, 191, 192, 240, 255}

\* The sixteen bytes a read gives newUUID: every value of uuid[6] with the
\* samples of uuid[8], every value of uuid[8] with the samples of uuid[6], and
\* other bytes that differ from place to place.
RandInputs ==
    { [p \in 1..UUIDLen |->
         IF p = 7 THEN ab[1] ELSE IF p = 9 THEN ab[2] ELSE (c + 17 * p) % 256] :
        ab \in ((0..255) \X ByteSamples) \cup (ByteSamples \X (0..255)),
        c \in {0, 255} }

\* newUUID is about to be called, on any of the inputs.
UUIDInit ==
    /\ pc = "newUUID"
    /\ exitCode = -1
    /\ exitBy = "none"
    /\ log = <<>>
    /\ out = <<>>
    /\ queueAttr = <<"true">>
    /\ queue = <<>>
    /\ delivered = <<>>
    /\ fifo = TRUE
    /\ result = <<>>
    /\ readdMessages = <<>>
    /\ received = <<>>
    /\ lastDelete = NoCall
    /\ i = 0
    /\ errors = <<>>
    /\ sendCalls = <<>>
    /\ reads = 0
    /\ randSound = TRUE
    /\ nDeleteFail = 0
    /\ keyID = <<"k">>
    /\ secretKey = <<"s">>
    /\ issued = {}
    /\ lookups = 0
    /\ deletesOwed = 0
    /\ randIn \in RandInputs
    /\ uuidOut = <<>>

\* newUUID is called: the read gives the sixteen bytes of randIn, or fails.
UUIDCall ==
    /\ pc = "newUUID"
    /\ uuidOut = <<>>
    /\ \E ok \in BOOLEAN :
         uuidOut' = << newUUID(IF ok
                               THEN [n |-> UUIDLen, err |-> NoErr, bytes |-> randIn]
                               ELSE FailedRead) >>
    /\ UNCHANGED <<pc, exitCode, exitBy, log, out, envVars, runVars, keyID,
                   secretKey, randIn, callVars>>

UUIDNext == UUIDCall

UUIDSpec == UUIDInit /\ [][UUIDNext]_vars

\* ------------------------------------------------- what the claims read

\* The rows of the CSV output: the lines that are neither the header, nor a
\* line of deleteMessageBatch, nor the usage.
IsRow(line) ==
    /\ line # CSVHead(TRUE)
    /\ line # CSVHead(FALSE)
    /\ line[1] # "Delete Error"
    /\ line # <<"Required queue name is missing.">>
    /\ \A u \in DOMAIN UsageLines : line # UsageLines[u]

RowsOf(o) == SelectSeq(o, IsRow)

\* What identifies a message in an entry and in a received message: its id
\* and its body.
EntryKey(e) == <<e.Id, e.MessageBody>>

MessageKey(m) == <<m.MessageId, m.Body>>

KeysOfEntries(es) == [p \in DOMAIN es |-> EntryKey(es[p])]

KeysOfMessages(ms) == [p \in DOMAIN ms |-> MessageKey(ms[p])]

RECURSIVE EntriesOfCalls(_)
\* The entries of a sequence of send calls, in call order.
EntriesOfCalls(calls) ==
    IF calls = <<>> THEN <<>>
    ELSE Head(calls).entries \o EntriesOfCalls(Tail(calls))

RECURSIVE ErrorsOfCalls(_)
\* The errors of the calls that failed, in call order.
ErrorsOfCalls(calls) ==
    IF calls = <<>> THEN <<>>
    ELSE (IF Head(calls).err # NoErr THEN <<Head(calls).err>> ELSE <<>>)
         \o ErrorsOfCalls(Tail(calls))

CeilDiv(a, b) == (a + b - 1) \div b

\* sendMessageBatch has returned: toCSV returned, or ended with the
\* log.Fatal that follows it.
SendReturned ==
    /\ pc = "exited"
    /\ \/ exitBy = "return"
       \/ /\ exitBy = "fatal"
          /\ log[Len(log)].msg = "There were errors re-adding the messages"

\* ------------------------------------------------------------- claims

\* C6: sendMessageBatch with batch size 10 issues exactly ceil(N/10) send
\* calls for N staged messages, every call carries 1 to 10 entries and only
\* the last may carry fewer than 10, and the entries of the calls, in call
\* order, are the staged messages in their order (at every moment of the
\* loop: the messages before index i).
C6_ChunksPartitionStaged ==
    /\ \A c \in DOMAIN sendCalls :
         /\ Len(sendCalls[c].entries) \in 1..SendBatch
         /\ c < Len(sendCalls) => Len(sendCalls[c].entries) = SendBatch
    /\ KeysOfEntries(EntriesOfCalls(sendCalls))
         = KeysOfMessages(SubSeq(readdMessages, 1, Min(i, Len(readdMessages))))
    /\ SendReturned => Len(sendCalls) = CeilDiv(Len(readdMessages), SendBatch)

\* C6, witness: the loop has returned after two calls for eleven staged
\* messages, ten entries in the first and one in the second.
C6_Witness ==
    /\ SendReturned
    /\ Len(readdMessages) = 11
    /\ Len(sendCalls) = 2
    /\ Len(sendCalls[1].entries) = 10
    /\ Len(sendCalls[2].entries) = 1

\* C7: a failed chunk does not stop sendMessageBatch: whichever calls fail, a
\* call is issued for every chunk, and the returned errors are the errors of
\* the failed calls, one for each, in call order.
C7_FailedChunkDoesNotBlock ==
    /\ errors = ErrorsOfCalls(sendCalls)
    /\ SendReturned =>
         /\ Len(sendCalls) = CeilDiv(Len(readdMessages), SendBatch)
         /\ Len(errors) = Cardinality({ c \in DOMAIN sendCalls :
                                         sendCalls[c].err # NoErr })

\* C7, witness: the first of two calls failed, the second was still issued and
\* succeeded, and one error was returned.
C7_Witness ==
    /\ SendReturned
    /\ Len(sendCalls) = 2
    /\ sendCalls[1].err # NoErr
    /\ sendCalls[2].err = NoErr
    /\ Len(errors) = 1

\* C8: a failed send call is fatal for the run: once a send call has failed
\* the run can only end with log.Fatal, a non-zero exit code and the errors of
\* all failed calls in the message; and toCSV returns (exit code 0) only after
\* a receive that returned nothing and with no failed send call.
C8_TransferFailureIsFatal ==
    /\ (\E c \in DOMAIN sendCalls : sendCalls[c].err # NoErr) =>
         /\ pc \in {"send", "exited"}
         /\ pc = "exited" =>
              /\ exitBy = "fatal"
              /\ exitCode # 0
              /\ log[Len(log)] = [msg |-> "There were errors re-adding the messages",
                                  errs |-> ErrorsOfCalls(sendCalls)]
    /\ exitBy = "return" =>
         /\ exitCode = 0
         /\ result = <<>>
         /\ Visible(queue) = {}
         /\ \A c \in DOMAIN sendCalls : sendCalls[c].err = NoErr

\* C8, witness: the run has ended with log.Fatal after a failed send call
\* that was followed by a successful one.
C8_Witness ==
    /\ pc = "exited"
    /\ exitCode = 1
    /\ Len(sendCalls) = 2
    /\ sendCalls[1].err # NoErr
    /\ sendCalls[2].err = NoErr

\* C9: the rows printed are the rows of the messages received, in the order
\* received; the staged messages are the messages received, in that order
\* (all of them unless formatCSV stopped the run); and the entries of the send
\* calls, and what the queue accepted of them, follow that order too.
C9_OrderKept ==
    /\ RowsOf(out) = CSVRows(received, fifo)
    /\ Len(readdMessages) <= Len(received)
    /\ readdMessages = SubSeq(received, 1, Len(readdMessages))
    /\ exitBy # "panic" => readdMessages = received
    /\ LET sent == KeysOfEntries(EntriesOfCalls(sendCalls))
       IN  /\ Len(sent) <= Len(received)
           /\ sent = KeysOfMessages(SubSeq(received, 1, Len(sent)))
    /\ \A p, q \in DOMAIN delivered :
         p < q =>
           \E a, b \in DOMAIN received :
             /\ a < b
             /\ EntryKey(delivered[p]) = MessageKey(received[a])
             /\ EntryKey(delivered[q]) = MessageKey(received[b])

\* C9, witness: a run that received eleven messages, in at least two
\* batches, has printed their rows and sent them all in two calls.
C9_Witness ==
    /\ exitBy = "return"
    /\ Len(received) = 11
    /\ Len(RowsOf(out)) = 11
    /\ Len(EntriesOfCalls(sendCalls)) = 11
    /\ Len(delivered) = 11

\* ----------------------------------- claims the code does not keep

\* A row of queue message q is in the output.
Rendered(q) ==
    \E r \in DOMAIN received :
      /\ received[r].MessageId = IdOf(q)
      /\ ~CSVPanics(received[r], fifo)
      /\ \E l \in DOMAIN out : out[l] = CSVRow(received[r], fifo)

\* The queue accepted an entry made from queue message q.
Resent(q) == \E d \in DOMAIN delivered : delivered[d].Id = IdOf(q)

\* The run reported an error: it wrote to the log and ended with a non-zero
\* exit code.
ErrorReported == log # <<>> /\ exitCode > 0

\* C1: when the run has ended, every message deleted from the queue is
\* accounted for (a row of it was printed, or the queue accepted its
\* re-send) or an error was reported, and none was deleted and then not
\* re-added without an error being reported.
C1_NoSilentDrop ==
    pc = "exited" =>
      \A x \in DOMAIN queue :
        queue[x].status = "deleted" =>
          /\ Rendered(queue[x]) \/ Resent(queue[x]) \/ ErrorReported
          /\ Resent(queue[x]) \/ ErrorReported

\* C2: when toCSV has returned, the queue has accepted exactly as many
\* entries as there were messages, one with the body of each; on a FIFO queue
\* each entry has the group id of its message and a deduplication id other
\* than the one of its message.
C2_RedriveProperty ==
    exitBy = "return" =>
      /\ Len(delivered) = Len(queue)
      /\ \A x \in DOMAIN queue :
           Cardinality({ d \in DOMAIN delivered :
                           delivered[d].MessageBody = BodyOf(queue[x].n) }) = 1
      /\ fifo =>
           \A d \in DOMAIN delivered :
             \E x \in DOMAIN queue :
               /\ delivered[d].Id = IdOf(queue[x])
               /\ delivered[d].MessageGroupId
                    = <<AttrValue("MessageGroupId", queue[x].n, 1)>>
               /\ delivered[d].MessageDeduplicationId
                    # <<AttrValue("MessageDeduplicationId", queue[x].n, 1)>>

\* The run ended with the log.Fatal of getQueueURL, getQueueAttributes or
\* receiveMessages.
ConnectivityAbort ==
    /\ pc = "exited"
    /\ exitBy = "fatal"
    /\ log[Len(log)].msg \in {"Error finding queue",
                              "Error fetching queue attributes",
                              "Error fetching message "}

\* C3: when the run aborts on a failed lookup or a failed receive, no message
\* has been deleted from the queue without having been re-added.
C3_NoPartialWorkOnAbort ==
    ConnectivityAbort =>
      \A x \in DOMAIN queue : queue[x].status = "deleted" => Resent(queue[x])

\* deleteMessageBatch has printed the failure of the delete call just made.
DeleteFailureLogged ==
    /\ out # <<>>
    /\ out[Len(out)][1] = "Delete Error"

\* C4: when the delete of a batch of two or more messages has failed for one
\* of them, the other messages of the batch are deleted, the failure has been
\* logged, the run goes on and the loop is at its next receive.
C4_PartialDeleteFailure ==
    (/\ lastDelete.made
     /\ Len(lastDelete.entries) >= 2
     /\ Cardinality(lastDelete.failed) = 1) =>
      /\ \A p \in DOMAIN lastDelete.entries :
           p \notin lastDelete.failed =>
             \A x \in DOMAIN queue :
               IdOf(queue[x]) = lastDelete.entries[p].Id =>
                 queue[x].status = "deleted"
      /\ DeleteFailureLogged
      /\ Running
      /\ pc = "receive"

\* The messages of an ordered queue that lack the group id.
Malformed == { x \in DOMAIN queue :
                 queueAttr = <<"true">> /\ "MessageGroupId" \notin queue[x].has }

\* C5: a message of an ordered queue without its group id does not crash or
\* abort the run, no entry is sent for it, and when the run has ended an item
\* error is reported for it and every other message deleted from the queue
\* has been re-added.
C5_MalformedItemSkipped ==
    \A x \in Malformed :
      /\ exitBy # "panic"
      /\ \A e \in DOMAIN EntriesOfCalls(sendCalls) :
           EntriesOfCalls(sendCalls)[e].Id # IdOf(queue[x])
      /\ pc = "exited" =>
           /\ queue[x].rcv > 0 => log # <<>>
           /\ \A y \in DOMAIN queue :
                (y # x /\ queue[y].status = "deleted") => Resent(queue[y])

\* The source message an entry was made from has this deduplication id.
SourceDedupId(e) ==
    LET x == CHOOSE y \in DOMAIN queue : IdOf(queue[y]) = e.Id
    IN  <<AttrValue("MessageDeduplicationId", queue[x].n, 1)>>

\* C10: on a FIFO queue every entry sent carries a deduplication id that is
\* not the one of its source message and not the one of any other entry sent
\* in the run, whatever the random source does.
C10_DedupIdNeverReused ==
    fifo =>
      LET sent == EntriesOfCalls(sendCalls)
      IN  /\ \A e \in DOMAIN sent :
               /\ Len(sent[e].MessageDeduplicationId) = 1
               /\ sent[e].MessageDeduplicationId # SourceDedupId(sent[e])
          /\ \A e, f \in DOMAIN sent :
               e # f => sent[e].MessageDeduplicationId
                          # sent[f].MessageDeduplicationId

\* --------------------------------------------------- the body in transit

\* The queue message a received message or an entry with this id comes from.
SourceOf(id) == CHOOSE x \in DOMAIN queue : IdOf(queue[x]) = id

\* C11: the body of a message is not changed on its way: every message a
\* receive returned has the body of its queue message, every staged message
\* too, and the entry built for the p-th staged message, and what the queue
\* accepted of it, carries that body, character for character.
C11_BodyNotMutated ==
    /\ \A r \in DOMAIN received :
         received[r].Body = BodyOf(queue[SourceOf(received[r].MessageId)].n)
    /\ \A p \in DOMAIN readdMessages :
         readdMessages[p].Body = received[p].Body
    /\ LET sent == EntriesOfCalls(sendCalls)
       IN  \A e \in DOMAIN sent :
             /\ sent[e].Id = received[e].MessageId
             /\ sent[e].MessageBody = received[e].Body
    /\ \A d \in DOMAIN delivered :
         delivered[d].MessageBody
           = BodyOf(queue[SourceOf(delivered[d].Id)].n)

\* C11, witness: an entry was accepted for a message whose row shows the body
\* changed (white space made one space, quotes escaped), with the body as it
\* was received.
C11_Witness ==
    \E d \in DOMAIN delivered :
      \E r \in DOMAIN received :
        /\ received[r].MessageId = delivered[d].Id
        /\ CSVBody(received[r]) # received[r].Body
        /\ \E l \in DOMAIN out : out[l] = CSVRow(received[r], fifo)
        /\ delivered[d].MessageBody = received[r].Body

\* ------------------------------------------------------------ exit codes

\* The run ended because the queue name was missing.
MissingArgument == pc = "exited" /\ exitBy = "usage"

\* The run ended with the log.Fatal whose message is msg.
FatalWith(msg) ==
    /\ pc = "exited"
    /\ exitBy = "fatal"
    /\ log[Len(log)].msg = msg

\* C12: the exit code is 0 only when the run succeeded (toCSV returned), and
\* it is not 0 when the queue name is missing, when the queue is not found,
\* when the credentials are missing or refused, and when a send call failed.
C12_ExitCodes ==
    pc = "exited" =>
      /\ exitCode = 0 => exitBy = "return"
      /\ MissingArgument => exitCode # 0
      /\ FatalWith("Error finding queue") => exitCode # 0
      /\ FatalWith("Missing connection credentials") => exitCode # 0
      /\ FatalWith("Error connecting to AWS ") => exitCode # 0
      /\ (\E c \in DOMAIN sendCalls : sendCalls[c].err # NoErr) => exitCode # 0

\* ----------------------------------------------------------- credentials

\* One of the two credential variables is not set.
CredentialAbsent == keyID = <<>> \/ secretKey = <<>>

\* C13: when one of the two credential variables is absent, no operation of
\* the queue service is ever called (no lookup of the address or of the
\* attributes, no receive, no delete, no send), and the run does not get
\* past newService: it ends there with log.Fatal, unless it ended before for
\* want of a queue name.
C13_NoQueueCallWithoutCredentials ==
    CredentialAbsent =>
      /\ issued = {}
      /\ lookups = 0
      /\ received = <<>>
      /\ ~lastDelete.made
      /\ sendCalls = <<>>
      /\ pc \in {"verify", "connect", "exited"}
      /\ pc = "exited" =>
           MissingArgument \/ FatalWith("Missing connection credentials")

\* C13, witness: with the key id set and the secret key absent, the run has
\* ended in newService without a call.
C13_Witness ==
    /\ keyID # <<>>
    /\ secretKey = <<>>
    /\ FatalWith("Missing connection credentials")
    /\ exitCode = 1
    /\ issued = {}

\* ------------------------------------------------------------ termination

\* The loop was left at an empty receive.
LoopEmpty == pc = "send" /\ result = <<>>

\* The run was ended inside the loop.
LoopAborted == pc = "exited"

\* C14: a run that has begun draining a queue of finitely many messages, to
\* which nothing is added, reaches the end of the loop: an empty receive, or
\* the end of the run by a fatal error; also when deletes fail and the
\* messages they leave become visible again.
C14_DrainTerminates == (pc = "receive") ~> (LoopEmpty \/ LoopAborted)

\* ------------------------------------------------------------ CSV output

\* The queue of the run is an ordered (FIFO) queue.
Ordered == queueAttr = <<"true">>

\* insertCSVHead has been called: the loop of toCSV was entered.
HeadWritten == pc \in {"receive", "delete", "send"} \/ "ReceiveMessage" \in issued

\* C15: once the header is due, standard output is the header of the queue's
\* mode (also when no message was received) followed by the rows of the
\* messages received, one for each, and nothing else. (A run that a panic of
\* formatCSV has ended is left out: its output stops short.)
C15_HeaderThenRows ==
    (HeadWritten /\ exitBy # "panic") =>
      /\ Len(out) = 1 + Len(received)
      /\ out[1] = (IF Ordered
                   THEN <<"Body,Message Group ID,Message Deduplication ID,Sequence Number,Sent">>
                   ELSE <<"Body,Sent">>)
      /\ \A r \in DOMAIN received : out[1 + r] = CSVRow(received[r], Ordered)

\* White space in t is single spaces only, none at either end.
Collapsed(t) ==
    /\ \A p \in DOMAIN t : IsSpace(t[p]) => t[p] = " "
    /\ \A p \in DOMAIN t :
         t[p] = " " => (p > 1 /\ p < Len(t) /\ t[p - 1] # " " /\ t[p + 1] # " ")

\* Every double quote of t has a backslash before it.
QuotesEscaped(t) ==
    \A p \in DOMAIN t : t[p] = "\"" => (p > 1 /\ t[p - 1] = "\\")

\* The first field of a row that starts with a double quote: what is
\* between that quote and the first quote that has no backslash before it.
QuotedField(row) ==
    LET close == CHOOSE p \in 2..Len(row) :
                   /\ row[p] = "\"" /\ row[p - 1] # "\\"
                   /\ \A h \in 2..(p - 1) : row[h] = "\"" => row[h - 1] = "\\"
    IN  SubSeq(row, 2, close - 1)

\* The row starts with a field in double quotes, closed before a comma.
StartsQuoted(row) ==
    /\ Len(row) >= 3
    /\ row[1] = "\""
    /\ \E p \in 2..(Len(row) - 1) :
         /\ row[p] = "\"" /\ row[p - 1] # "\\"
         /\ row[p + 1] = ","
         /\ \A h \in 2..(p - 1) : row[h] = "\"" => row[h - 1] = "\\"

\* C16: in the row of every message, on a standard and on an ordered queue,
\* the body is the first field, in double quotes, with its quotes escaped and
\* every run of white space made one space.
C16_BodyQuoted ==
    \A l \in DOMAIN out :
      (l > 1 /\ IsRow(out[l])) =>
        /\ StartsQuoted(out[l])
        /\ Collapsed(QuotedField(out[l]))
        /\ QuotesEscaped(QuotedField(out[l]))
        /\ \E r \in DOMAIN received :
             /\ ~CSVPanics(received[r], fifo)
             /\ out[l] = CSVRow(received[r], fifo)
             /\ Fields(QuotedField(out[l])) = Fields(EscapeQuotes(received[r].Body))

\* ------------------------------------------------- delete, then transfer

\* The run is in the loop of toCSV.
Draining == pc \in {"receive", "delete"}

\* C17: no send call is made while the run is draining; when a send call has
\* been made, the loop has been left at a receive that returned nothing, and
\* a delete call has been made for every batch received.
C17_SendAfterDrain ==
    /\ Draining =>
         /\ sendCalls = <<>>
         /\ delivered = <<>>
         /\ "SendMessageBatch" \notin issued
    /\ (sendCalls # <<>> \/ "SendMessageBatch" \in issued) =>
         /\ pc \in {"send", "exited"}
         /\ result = <<>>
         /\ deletesOwed = 0
         /\ "DeleteMessageBatch" \in issued

\* C17, witness: two send calls were made for eleven messages, which were
\* received in two batches or more, each followed by its delete.
C17_Witness ==
    /\ Len(sendCalls) = 2
    /\ Len(received) = 11
    /\ deletesOwed = 0
    /\ result = <<>>

\* ------------------------------------------------------ the queue's mode

\* C18: the attributes of the queue are fetched at most once in a run, and
\* once before the header and before any receive; and the mode found then is
\* the one of the header, of the attributes every receive asked for, of every
\* row and of every entry sent.
C18_ModeLookedUpOnce ==
    /\ lookups \in {0, 1}
    /\ lookups = 0 =>
         /\ pc \in {"verify", "connect", "geturl", "isfifo", "exited"}
         /\ received = <<>>
         /\ "ReceiveMessage" \notin issued
         /\ \A l \in DOMAIN out : out[l] \notin {CSVHead(TRUE), CSVHead(FALSE)}
    /\ HeadWritten =>
         /\ lookups = 1
         /\ fifo = Ordered
         /\ out[1] = CSVHead(Ordered)
         /\ \A l \in 2..Len(out) : out[l] \notin {CSVHead(TRUE), CSVHead(FALSE)}
    /\ \A r \in DOMAIN received :
         /\ DOMAIN received[r].Attributes
              = queue[SourceOf(received[r].MessageId)].has \cap Wanted(Ordered)
         /\ r <= Len(RowsOf(out)) =>
              RowsOf(out)[r] = CSVRow(received[r], Ordered)
    /\ \A c \in DOMAIN sendCalls :
         \A e \in DOMAIN sendCalls[c].entries :
           LET entry == sendCalls[c].entries[e]
           IN  IF Ordered
               THEN /\ Len(entry.MessageDeduplicationId) = 1
                    /\ Len(entry.MessageGroupId) = 1
                    /\ entry.DelaySeconds = <<>>
               ELSE /\ entry.MessageDeduplicationId = <<>>
                    /\ entry.MessageGroupId = <<>>
                    /\ entry.DelaySeconds = <<DelaySeconds>>

\* C18, witness: a run on an ordered queue has returned after one lookup, two
\* receives or more with messages, and a send call.
C18_Witness ==
    /\ Ordered
    /\ exitBy = "return"
    /\ lookups = 1
    /\ Len(received) = 11
    /\ Len(sendCalls) = 2
    /\ out[1] = CSVHead(TRUE)

\* ------------------------------------------------------ outbound entries

\* The attributes of an entry on an ordered queue.
OrderedEntryAttrs == {"SentTimestamp", "SequenceNumber", "MessageGroupId",
                      "SenderId", "ApproximateFirstReceiveTimestamp",
                      "ApproximateReceiveCount"}

\* The attribute a of entry e is a plain string attribute with the value v.
PlainAttr(e, a, v) ==
    /\ a \in DOMAIN e.MessageAttributes
    /\ e.MessageAttributes[a].DataType = "String"
    /\ e.MessageAttributes[a].StringValue = v

\* C19: the entry built for the e-th message received has its body; on a
\* standard queue the sent timestamp as its one attribute, a delay of 1 and
\* neither group id nor deduplication id; on an ordered queue the group id of
\* the message, a deduplication id, the sent timestamp, sequence number,
\* group id, sender id, first receive timestamp and receive count of the
\* message as its six attributes, and no delay.
C19_EntryShape ==
    LET sent == EntriesOfCalls(sendCalls)
    IN  \A e \in DOMAIN sent :
          LET m == received[e]
              n == queue[SourceOf(m.MessageId)].n
          IN  /\ sent[e].Id = m.MessageId
              /\ sent[e].MessageBody = BodyOf(n)
              /\ PlainAttr(sent[e], "SentTimestamp", AttrValue("SentTimestamp", n, 1))
              /\ IF Ordered
                 THEN /\ sent[e].MessageGroupId
                           = <<AttrValue("MessageGroupId", n, 1)>>
                      /\ Len(sent[e].MessageDeduplicationId) = 1
                      /\ DOMAIN sent[e].MessageAttributes = OrderedEntryAttrs
                      /\ \A a \in OrderedEntryAttrs :
                           PlainAttr(sent[e], a, m.Attributes[a])
                      /\ \A a \in OrderedEntryAttrs \ {"ApproximateReceiveCount"} :
                           PlainAttr(sent[e], a, AttrValue(a, n, 1))
                      /\ sent[e].DelaySeconds = <<>>
                 ELSE /\ DOMAIN sent[e].MessageAttributes = {"SentTimestamp"}
                      /\ sent[e].DelaySeconds = <<1>>
                      /\ sent[e].MessageGroupId = <<>>
                      /\ sent[e].MessageDeduplicationId = <<>>

\* C19, witness: on an ordered queue an entry was sent with a deduplication
\* id of 32 digits, the group id of its message and six attributes, for a
\* message that had been received twice.
C19_Witness ==
    /\ Ordered
    /\ \E c \in DOMAIN sendCalls :
         \E e \in DOMAIN sendCalls[c].entries :
           LET entry == sendCalls[c].entries[e]
           IN  /\ Len(entry.MessageDeduplicationId) = 1
               /\ Len(entry.MessageDeduplicationId[1]) = 32
               /\ Cardinality(DOMAIN entry.MessageAttributes) = 6
               /\ entry.MessageAttributes["ApproximateReceiveCount"].StringValue
                    = <<"0", "2">>

\* C19, the other mode: on a standard queue an entry was sent with the delay.
C19_WitnessStandard ==
    /\ ~Ordered
    /\ \E c \in DOMAIN sendCalls :
         \E e \in DOMAIN sendCalls[c].entries :
           sendCalls[c].entries[e].DelaySeconds = <<1>>

\* ------------------------------------------------------------- newUUID

\* The value of a hexadecimal digit.
HexValue(c) == CHOOSE v \in 0..15 : HexDigit[v + 1] = c

\* The bytes a text of hexadecimal digits stands for, two digits a byte.
BytesOfHex(text) ==
    [p \in 1..(Len(text) \div 2) |->
       16 * HexValue(text[2 * p - 1]) + HexValue(text[2 * p])]

\* The bits newUUID sets: the two highest of uuid[8] and the four highest of
\* uuid[6] (at 9 and 7, counting from 1).
ForcedBit(p, k) == (p = 9 /\ k \in {6, 7}) \/ (p = 7 /\ k \in 4..7)

\* C20: for every sixteen bytes the read gives, newUUID returns, as 32
\* hexadecimal digits, sixteen bytes of which byte 8 has its two highest bits
\* 1 and 0 (variant 1), byte 6 has 4 as its higher half (version 4), and
\* every other bit is the bit of the input.
C20_UUIDBits ==
    (uuidOut # <<>> /\ uuidOut[1].err = NoErr) =>
      LET text == uuidOut[1].uuid
          o == BytesOfHex(text)
      IN  /\ Len(text) = 32
          /\ \A c \in DOMAIN text : \E v \in 0..15 : HexDigit[v + 1] = text[c]
          /\ Bit(o[9], 7) = 1
          /\ Bit(o[9], 6) = 0
          /\ o[7] \div 16 = 4
          /\ \A p \in 1..16 :
               \A k \in 0..7 :
                 ForcedBit(p, k) \/ Bit(o[p], k) = Bit(randIn[p], k)

\* C20, witness: newUUID has returned for an input whose bytes 6 and 8 were
\* both 255: they are 0x4f and 0xbf in the result.
C20_Witness ==
    /\ uuidOut # <<>>
    /\ uuidOut[1].err = NoErr
    /\ randIn[7] = 255
    /\ randIn[9] = 255
    /\ BytesOfHex(uuidOut[1].uuid)[7] = 79
    /\ BytesOfHex(uuidOut[1].uuid)[9] = 191

\* ------------------------------------------------------------ entry ids

\* C21: in every send call the ids of the entries, which are the ids of the
\* staged messages, differ two by two, also when a delete has failed and a
\* message was received and staged a second time.
C21_EntryIdsDistinct ==
    \A c \in DOMAIN sendCalls :
      /\ \A e \in DOMAIN sendCalls[c].entries :
           \E r \in DOMAIN received :
             sendCalls[c].entries[e].Id = received[r].MessageId
      /\ \A e, f \in DOMAIN sendCalls[c].entries :
           e # f => sendCalls[c].entries[e].Id # sendCalls[c].entries[f].Id

\* ------------------------------------------------- recorded, then deleted

\* The batch just received is the end of what was received and of what is
\* staged, and the rows of its messages are the last rows printed.
BatchRecorded ==
    LET k == Len(result)
        rows == RowsOf(out)
    IN  /\ k \in 1..ReceiveBatch
        /\ Len(received) >= k
        /\ Len(readdMessages) >= k
        /\ Len(rows) >= k
        /\ \A p \in 1..k :
             /\ received[Len(received) - k + p] = result[p]
             /\ readdMessages[Len(readdMessages) - k + p] = result[p]
             /\ rows[Len(rows) - k + p] = CSVRow(result[p], fifo)

\* C22: when deleteMessageBatch is called, and when it has been, the batch
\* just received is staged and printed; the call has one to ten entries, one
\* for each message of that batch and in its order, each with the id of its
\* message and the receipt handle the queue gave it at that receive.
C22_RecordedBeforeDeleted ==
    /\ pc = "delete" => BatchRecorded
    /\ lastDelete.made =>
         /\ BatchRecorded
         /\ Len(lastDelete.entries) \in 1..10
         /\ Len(lastDelete.entries) = Len(result)
         /\ \A p \in DOMAIN lastDelete.entries :
              LET x == SourceOf(result[p].MessageId)
              IN  /\ lastDelete.entries[p].Id = IdOf(queue[x])
                  /\ lastDelete.entries[p].ReceiptHandle = HandleOf(queue[x])
                  /\ queue[x].rcv >= 1
    /\ \A x \in DOMAIN queue : queue[x].status = "deleted" => Rendered(queue[x])

\* C22, witness: a delete call of ten entries has been made for the second
\* batch of a run, after a first batch of one message.
C22_Witness ==
    /\ lastDelete.made
    /\ Len(lastDelete.entries) = 10
    /\ Len(received) = 11
    /\ Len(readdMessages) = 11
    /\ pc = "receive"

\* ------------------------------------------------------ non-destructive

\* No delete call failed, as a call or for an entry; no send call failed, as
\* a call or for an entry; and no read of the random source failed (an entry
\* with an empty deduplication id is not one the queue takes).
NoFailure ==
    /\ nDeleteFail = 0
    /\ randSound
    /\ \A c \in DOMAIN sendCalls :
         sendCalls[c].err = NoErr /\ sendCalls[c].failed = {}

\* How many messages with body b the queue held when the run started.
Before(b) == Cardinality({ x \in DOMAIN queue : BodyOf(queue[x].n) = b })

\* How many messages with body b the queue holds now: those of the start
\* that are not deleted, and the entries it accepted.
After(b) ==
    Cardinality({ x \in DOMAIN queue :
                    queue[x].status # "deleted" /\ BodyOf(queue[x].n) = b })
    + Cardinality({ d \in DOMAIN delivered : delivered[d].MessageBody = b })

\* C23: when toCSV has returned and nothing failed, the queue holds the
\* bodies it held before the run, each as often as before (once: no two
\* messages of the start have the same body), none lost and none twice.
C23_NonDestructive ==
    (exitBy = "return" /\ NoFailure) =>
      /\ Len(delivered) = Len(queue)
      /\ \A x \in DOMAIN queue :
           /\ Before(BodyOf(queue[x].n)) = 1
           /\ After(BodyOf(queue[x].n)) = 1
      /\ \A d \in DOMAIN delivered :
           Before(delivered[d].MessageBody) = 1

\* C23, witness: a run on an ordered queue of eleven messages has returned
\* with nothing failed: the eleven are deleted and eleven entries accepted.
C23_Witness ==
    /\ exitBy = "return"
    /\ NoFailure
    /\ Ordered
    /\ Len(queue) = 11
    /\ \A x \in DOMAIN queue : queue[x].status = "deleted"
    /\ Len(delivered) = 11

====
